---------------------------- MODULE Spec2Model ----------------------------
(***************************************************************************)
(* A model of gf-metadata (src/src/lib.rs): the font selector, the         *)
(* primary-language resolver, the CSV tokenizer with the tag parser, and   *)
(* the lazily cached GoogleFonts index.                                    *)
(*                                                                         *)
(* Strings whose characters matter (file names, CSV lines) are sequences   *)
(* of one-character strings; all characters are ASCII, so a byte index of  *)
(* the Rust code is a character index here.  Rust indices are 0-based,     *)
(* sequences are 1-based: the operators below keep the Rust (0-based)      *)
(* indices and convert only when they touch a sequence.                    *)
(*                                                                         *)
(* The repository on disk is the environment of the index: every           *)
(* filesystem read of an operation draws what the disk holds at that       *)
(* moment, so any change of the disk between two calls is covered.         *)
(***************************************************************************)
EXTENDS Integers, Sequences, FiniteSets, TLC

VARIABLES
    \* ---- font selector (select_font / exemplar) ----
    sel_family,          \* FamilyProto.fonts of the family passed in
    sel_call,            \* the call made: <<name, preferred_style, preferred_weight>>
    sel_ret,             \* Option<&FontProto>: 0 = None, i = Some(&fonts[i])
    \* ---- primary-language resolver ----
    LANGUAGES,           \* the bundled knowledge base, in iteration order
    lang_family,         \* FamilyProto passed to primary_language
    lang_ret,            \* the outcome: the position of the language returned, or Panic
    \* ---- CSV tokenizer and tag parser ----
    csv_line,            \* the line handed to csv_values / Tagging::from_str
    csv_ret,             \* result of csv_values(csv_line)
    tag_ret,             \* result of Tagging::from_str(csv_line)
    \* ---- read_family ----
    pb_text,             \* the METADATA.pb content handed to read_family
    pb_parsed,           \* the text read_family handed to the external parser
    \* ---- GoogleFonts index ----
    family_filter,       \* Option<Regex>
    families,            \* OnceCell<Vec<(PathBuf, Result<FamilyProto, ParseError>)>>
    family_by_font_file, \* OnceCell<HashMap<String, usize>>
    tags,                \* OnceCell<Result<Vec<Tagging>, Error>>
    tag_metadata,        \* OnceCell<Result<Vec<TagMetadata>, Error>>
    op,                  \* the last operation called: <<name, argument>>
    ret,                 \* what that operation returned
    fs_seen,             \* the filesystem accesses of that operation, with the answers
    walked,              \* the entries the walk of that operation yielded: <<walk>>, or <<>>
    diag,                \* the diagnostics that operation wrote to stderr
    aborted              \* the process panicked (terminal)

selVars  == <<sel_family, sel_call, sel_ret>>
langVars == <<LANGUAGES, lang_family, lang_ret>>
csvVars  == <<csv_line, csv_ret, tag_ret>>
pbVars   == <<pb_text, pb_parsed>>
idxVars  == <<family_filter, families, family_by_font_file, tags, tag_metadata,
              op, ret, fs_seen, walked, diag, aborted>>
vars     == <<selVars, langVars, csvVars, pbVars, idxVars>>

-----------------------------------------------------------------------------
(* Generic helpers on integers and character sequences                     *)

Abs(x) == IF x < 0 THEN -x ELSE x

\* An absent optional string field.
None  == "None"
\* OnceCell<T>: <<>> while unset, <<v>> once computed.
Unset == <<>>
\* The outcome of a call: not made yet, returned v, or panicked.
NotCalled   == [status |-> "NotCalled"]
Panic       == [status |-> "Panic"]
Returned(v) == [status |-> "Returned", value |-> v]
HasReturned(r) == r.status = "Returned"

\* str::contains(sub): some window of s equals sub.
Contains(s, sub) ==
    \E i \in 1..(Len(s) - Len(sub) + 1) : SubSeq(s, i, i + Len(sub) - 1) = sub

-----------------------------------------------------------------------------
(* Font selector: exemplar_score, exemplar, select_font                    *)

\* Bound: the longest font list of a family.
MaxFonts == 3

FileNames == { <<"R", ".", "t">>, <<"R", "[", "w", "]", ".", "t">> }
FontStyles == {"normal", "italic"}
Weights == {300, 400, 450, 500}
PreferredWeights == {400, 500}
FontStyleEnum == {"Normal", "Italic"}

FontProto == [filename : FileNames, style : FontStyles, weight : Weights]

\* FontStyle::style
style(fs) == IF fs = "Normal" THEN "normal" ELSE "italic"

exemplar_score(font, preferred_style, preferred_weight) ==
    LET s1 == IF font.style = style(preferred_style) THEN 16 ELSE 0
        s2 == s1 - (Abs(font.weight - preferred_weight) \div 100)
        s3 == IF font.weight > preferred_weight THEN s2 + 1 ELSE s2
        s4 == IF Contains(font.filename, <<"]", ".">>) THEN s3 + 2 ELSE s3
    IN  s4

\* Iterator::reduce over fonts.iter() with the closure
\*   |acc, e| if score(acc) >= score(e) { acc } else { e }
\* acc and e are references, modelled as positions in the list.
RECURSIVE ReduceFonts(_, _, _, _, _)
ReduceFonts(fonts, ps, pw, acc, i) ==
    IF i > Len(fonts) THEN acc
    ELSE ReduceFonts(fonts, ps, pw,
                     IF exemplar_score(fonts[acc], ps, pw) >= exemplar_score(fonts[i], ps, pw)
                     THEN acc ELSE i,
                     i + 1)

\* Mutant of select_font: the closure replaces on >=, so the last of the
\* best-scoring fonts wins.
RECURSIVE ReduceFontsLastWins(_, _, _, _, _)
ReduceFontsLastWins(fonts, ps, pw, acc, i) ==
    IF i > Len(fonts) THEN acc
    ELSE ReduceFontsLastWins(fonts, ps, pw,
                     IF exemplar_score(fonts[acc], ps, pw) > exemplar_score(fonts[i], ps, pw)
                     THEN acc ELSE i,
                     i + 1)

select_font_last_wins(fonts, preferred_style, preferred_weight) ==
    IF Len(fonts) = 0 THEN 0
    ELSE ReduceFontsLastWins(fonts, preferred_style, preferred_weight, 1, 2)

select_font(fonts, preferred_style, preferred_weight) ==
    IF Len(fonts) = 0 THEN 0
    ELSE ReduceFonts(fonts, preferred_style, preferred_weight, 1, 2)

exemplar(fonts) ==
    IF Len(fonts) = 0 THEN 0
    ELSE ReduceFonts(fonts, "Normal", 400, 1, 2)

FontLists == UNION { [1..n -> FontProto] : n \in 0..MaxFonts }

SelInit ==
    /\ sel_family \in FontLists
    /\ sel_call = <<"none", "Normal", 0>>
    /\ sel_ret = 0

SelIdle ==
    /\ sel_family = <<>>
    /\ sel_call = <<"none", "Normal", 0>>
    /\ sel_ret = 0

SelectFont ==
    \E ps \in FontStyleEnum, pw \in PreferredWeights :
        /\ sel_call' = <<"select_font", ps, pw>>
        /\ sel_ret' = select_font(sel_family, ps, pw)
        /\ UNCHANGED sel_family

Exemplar ==
    /\ sel_call' = <<"exemplar", "Normal", 400>>
    /\ sel_ret' = exemplar(sel_family)
    /\ UNCHANGED sel_family

-----------------------------------------------------------------------------
(* Primary-language resolver: GoogleFonts::language, primary_language      *)

\* Bound: the number of languages in the knowledge base.
MaxLangs == 3

LangIds == {"en_Latn", "ja_Jpan", "ryu_Jpan", "fr_Latn"}
Scripts == {"Jpan", "Latn"}
Populations == {10, 20}

\* LanguageProto: id, optional script, population.
LanguageProto == [id : LangIds, script : Scripts \cup {None}, population : Populations]

\* FamilyProto as primary_language reads it: has_primary_language() is
\* primary_language # None, has_primary_script() is primary_script # None.
LangFamilies == [primary_language : {None, "ja_Jpan", "Invalid"},
                 primary_script   : {None, "Jpan", "Zzzz"}]

\* LANGUAGES.get(lang_id): the position of the entry with that id, 0 for None.
language(lang_id) ==
    IF \E i \in 1..Len(LANGUAGES) : LANGUAGES[i].id = lang_id
    THEN CHOOSE i \in 1..Len(LANGUAGES) : LANGUAGES[i].id = lang_id
    ELSE 0

\* LANGUAGES.values().filter(|l| l.script.is_some() && l.script() == primary_script)
\* as the list of positions that pass, in iteration order.
RECURSIVE FilterScript(_, _)
FilterScript(primary_script, i) ==
    IF i > Len(LANGUAGES) THEN <<>>
    ELSE IF LANGUAGES[i].script # None /\ LANGUAGES[i].script = primary_script
         THEN <<i>> \o FilterScript(primary_script, i + 1)
         ELSE FilterScript(primary_script, i + 1)

\* .reduce(|acc, e| if acc.population() > e.population() { acc } else { e })
RECURSIVE ReducePopulation(_, _, _)
ReducePopulation(cands, acc, k) ==
    IF k > Len(cands) THEN acc
    ELSE ReducePopulation(cands,
                          IF LANGUAGES[acc].population > LANGUAGES[cands[k]].population
                          THEN acc ELSE cands[k],
                          k + 1)

\* Mutant of MostPopulous: the closure keeps acc on >=, so the first of the
\* most populous languages wins.
RECURSIVE ReducePopulationFirstWins(_, _, _)
ReducePopulationFirstWins(cands, acc, k) ==
    IF k > Len(cands) THEN acc
    ELSE ReducePopulationFirstWins(cands,
                          IF LANGUAGES[acc].population >= LANGUAGES[cands[k]].population
                          THEN acc ELSE cands[k],
                          k + 1)

MostPopulousFirstWins(primary_script) ==
    LET cands == FilterScript(primary_script, 1)
    IN  IF Len(cands) = 0 THEN 0 ELSE ReducePopulationFirstWins(cands, cands[1], 2)

MostPopulous(primary_script) ==
    LET cands == FilterScript(primary_script, 1)
    IN  IF Len(cands) = 0 THEN 0 ELSE ReducePopulation(cands, cands[1], 2)

\* Mutant of primary_language: the primary script is probed before the
\* primary language.
primary_language_script_first(family) ==
    LET p1 == IF family.primary_script # None
              THEN MostPopulous(family.primary_script) ELSE 0
        p2 == IF p1 = 0 /\ family.primary_language # None
              THEN language(family.primary_language) ELSE p1
        p3 == IF p2 = 0 THEN language("en_Latn") ELSE p2
    IN  IF p3 = 0 THEN Panic ELSE Returned(p3)

\* GoogleFonts::primary_language: the position of the language returned, or Panic.
primary_language(family) ==
    LET p1 == IF family.primary_language # None
              THEN language(family.primary_language) ELSE 0
        p2 == IF p1 = 0 /\ family.primary_script # None
              THEN MostPopulous(family.primary_script) ELSE p1
        p3 == IF p2 = 0 THEN language("en_Latn") ELSE p2
    IN  IF p3 = 0 THEN Panic ELSE Returned(p3)

\* Knowledge bases: a map keeps one entry per id.
KnowledgeBases ==
    { kb \in UNION { [1..n -> LanguageProto] : n \in 1..MaxLangs } :
        \A i, j \in 1..Len(kb) : i # j => kb[i].id # kb[j].id }

LangInit ==
    /\ LANGUAGES \in KnowledgeBases
    /\ lang_family = [primary_language |-> None, primary_script |-> None]
    /\ lang_ret = NotCalled

LangIdle ==
    /\ LANGUAGES = <<>>
    /\ lang_family = [primary_language |-> None, primary_script |-> None]
    /\ lang_ret = NotCalled

PrimaryLanguage ==
    \E family \in LangFamilies :
        /\ lang_family' = family
        /\ lang_ret' = primary_language(family)
        /\ UNCHANGED LANGUAGES

-----------------------------------------------------------------------------
(* CSV tokenizer and tag parsers: csv_values, Tagging::from_str,           *)
(* TagMetadata::from_str                                                   *)

\* Bound: the longest line handed to the tokenizer.
MaxLineLen == 6

Quote == "\""
Comma == ","
CsvChars == {"t", "1", Comma, Quote, " "}

\* str::find(c): the 0-based index of the first c in s, -1 for None.
RECURSIVE FindFrom(_, _, _)
FindFrom(s, c, i) ==
    IF i > Len(s) THEN -1
    ELSE IF s[i] = c THEN i - 1
    ELSE FindFrom(s, c, i + 1)

Find(s, c) == FindFrom(s, c, 1)

\* &s[from..] with a 0-based from.
SliceFrom(s, from) == SubSeq(s, from + 1, Len(s))

\* &s[..to] with a 0-based, exclusive to.
SliceTo(s, to) == SubSeq(s, 1, to)

RECURSIVE TrimStart(_)
TrimStart(s) ==
    IF Len(s) > 0 /\ s[1] = " " THEN TrimStart(Tail(s)) ELSE s

RECURSIVE TrimEnd(_)
TrimEnd(s) ==
    IF Len(s) > 0 /\ s[Len(s)] = " " THEN TrimEnd(SubSeq(s, 1, Len(s) - 1)) ELSE s

\* str::trim
Trim(s) == TrimEnd(TrimStart(s))

\* One pass of the while loop of csv_values on the rest s0 of the line, and
\* the passes after it.  The result is Returned(the vector of values), or
\* Panic when the expect("Close quote") fails.
RECURSIVE csv_loop(_, _)
csv_loop(s0, values) ==
    IF Len(s0) = 0 THEN Returned(values)
    ELSE
      LET s      == Trim(s0)
          quoted == Len(s) > 0 /\ s[1] = Quote
          \* s.strip_prefix('"') then find('"') in the stripped text
          close  == IF quoted THEN Find(SliceFrom(s, 1), Quote) ELSE -1
      IN  IF quoted /\ close = -1 THEN Panic
          ELSE
            LET from  == IF quoted THEN close ELSE 0   \* end_idx.unwrap_or_default()
                comma == Find(SliceFrom(s, from), Comma)
            IN  IF comma # -1
                THEN LET end_idx == comma + from
                     IN  csv_loop(SliceFrom(s, end_idx + 1),
                                  Append(values, Trim(SliceTo(s, end_idx))))
                ELSE Returned(Append(values, s))

csv_values(s) == csv_loop(s, <<>>)

\* f32::from_str on a field over CsvChars: of these characters only the
\* digit can occur in a float literal (no sign, point or exponent, and the
\* words inf and nan need other letters), and no whitespace is accepted.
IsF32(field) == Len(field) > 0 /\ \A i \in 1..Len(field) : field[i] = "1"

RECURSIVE F32Value(_)
F32Value(field) ==
    IF Len(field) = 0 THEN 0
    ELSE 10 * F32Value(SubSeq(field, 1, Len(field) - 1)) + 1

Err(msg) == [ok |-> FALSE, err |-> msg]

\* Mutant of Tagging_from_str: the three-field arm binds the fields as
\* (family, loc, value) and leaves the tag empty.
Tagging_from_str_loc_for_tag(s) ==
    LET tokens == csv_values(s)
        values == tokens.value
    IN  IF tokens = Panic THEN Panic
        ELSE IF Len(values) \notin {3, 4} THEN Returned(Err("Unparseable tag"))
        ELSE
          LET family == values[1]
              loc    == values[2]
              tag    == IF Len(values) = 3 THEN <<>> ELSE values[3]
              value  == IF Len(values) = 3 THEN values[3] ELSE values[4]
          IN  IF IsF32(value)
              THEN Returned([ok |-> TRUE, family |-> family, loc |-> loc, tag |-> tag,
                             value |-> F32Value(value)])
              ELSE Returned(Err("Invalid tag value"))

\* impl FromStr for Tagging
Tagging_from_str(s) ==
    LET tokens == csv_values(s)
        values == tokens.value
    IN  IF tokens = Panic THEN Panic
        ELSE IF Len(values) \notin {3, 4} THEN Returned(Err("Unparseable tag"))
        ELSE
          LET family == values[1]
              loc    == IF Len(values) = 3 THEN <<>> ELSE values[2]
              tag    == IF Len(values) = 3 THEN values[2] ELSE values[3]
              value  == IF Len(values) = 3 THEN values[3] ELSE values[4]
          IN  IF IsF32(value)
              THEN Returned([ok |-> TRUE, family |-> family, loc |-> loc, tag |-> tag,
                             value |-> F32Value(value)])
              ELSE Returned(Err("Invalid tag value"))

\* impl FromStr for TagMetadata
TagMetadata_from_str(s) ==
    LET tokens == csv_values(s)
        values == tokens.value
    IN  IF tokens = Panic THEN Panic
        ELSE IF Len(values) # 4
             THEN Returned(Err("Unparseable tag metadata, wrong number of values"))
        ELSE IF ~IsF32(values[2]) THEN Returned(Err("Invalid min value"))
        ELSE IF ~IsF32(values[3]) THEN Returned(Err("Invalid min value"))
        ELSE Returned([ok |-> TRUE, tag |-> values[1],
                       min_value |-> F32Value(values[2]),
                       max_value |-> F32Value(values[3]), prompt_name |-> values[4]])

CsvLines == UNION { [1..n -> CsvChars] : n \in 0..MaxLineLen }

CsvInit ==
    /\ csv_line \in CsvLines
    /\ csv_ret = NotCalled
    /\ tag_ret = NotCalled

CsvIdle ==
    /\ csv_line = <<>>
    /\ csv_ret = NotCalled
    /\ tag_ret = NotCalled

CsvValues ==
    /\ csv_ret' = csv_values(csv_line)
    /\ UNCHANGED <<csv_line, tag_ret>>

TaggingFromStr ==
    /\ tag_ret' = Tagging_from_str(csv_line)
    /\ UNCHANGED <<csv_line, csv_ret>>

-----------------------------------------------------------------------------
(* Record reader: read_family and its regular expression                   *)

\* Bound: the longest METADATA.pb text, in tokens.
MaxTextLen == 6

\* The tokens of a text: the word position, whitespace, the two braces, the
\* double quote, and a character that is none of these.  A text is a
\* sequence of tokens; the word position occurs in it only as the token.
Position == "position"
PbChars == {Position, " ", "{", "}", Quote, "x"}

\* \s+ from 1-based index j: the index after the run of whitespace.
RECURSIVE SkipSpaces(_, _)
SkipSpaces(s, j) ==
    IF j <= Len(s) /\ s[j] = " " THEN SkipSpaces(s, j + 1) ELSE j

\* The match of position\s+\{[^}]*\} that starts at 1-based index i: the
\* index of its last character (the first closing brace after the opening
\* one), or 0 when there is no match at i.
MatchEnd(s, i) ==
    IF s[i] # Position THEN 0
    ELSE LET j == SkipSpaces(s, i + 1)
         IN  IF j = i + 1 \/ j > Len(s) \/ s[j] # "{" THEN 0
             ELSE FindFrom(s, "}", j + 1) + 1

\* Regex::replace_all(s, ""): the leftmost matches, none overlapping
\* another, are dropped and the text between them is kept.
RECURSIVE replace_all(_, _)
replace_all(s, i) ==
    IF i > Len(s) THEN <<>>
    ELSE IF MatchEnd(s, i) # 0 THEN replace_all(s, MatchEnd(s, i) + 1)
    ELSE <<s[i]>> \o replace_all(s, i + 1)

\* The text read_family hands to protobuf::text_format::parse_from_str.
parser_input(s) ==
    IF Contains(s, <<Position>>) THEN replace_all(s, 1) ELSE s

PbTexts == UNION { [1..n -> PbChars] : n \in 0..MaxTextLen }

PbInit ==
    /\ pb_text \in PbTexts
    /\ pb_parsed = NotCalled

PbIdle ==
    /\ pb_text = <<>>
    /\ pb_parsed = NotCalled

ReadFamily ==
    /\ pb_parsed' = Returned(parser_input(pb_text))
    /\ UNCHANGED pb_text

-----------------------------------------------------------------------------
(* GoogleFonts index: the repository as the filesystem presents it         *)

\* Bound: the number of directories the walk of the repository visits.
NumDirs == 2

\* The directories of the repository, numbered in walk order.
Dirs == 1..NumDirs

\* Font file names; in the index only their identity matters.
IdxFileNames == {"A.ttf", "B.ttf"}
IdxFontLists == { <<"A.ttf">>, <<"A.ttf", "B.ttf">> }

\* What fs::read_to_string gives for a file: unreadable, or a text.  Of a
\* text the index uses what the parser makes of it: whether it parses, and
\* the file names of the fonts it lists.
Unreadable == [readable |-> FALSE, valid |-> FALSE, fonts |-> <<>>]
MetadataTexts == [readable : {TRUE}, valid : BOOLEAN, fonts : IdxFontLists]
FileContents == {Unreadable} \cup MetadataTexts

\* What the walk yields in one directory: an error, a file of another name,
\* or a file named METADATA.pb.
WalkError == [ok |-> FALSE, file_name |-> "", content |-> Unreadable]
OtherFile == [ok |-> TRUE, file_name |-> "DESCRIPTION.en_us.html", content |-> Unreadable]
WalkEntries ==
    {WalkError, OtherFile}
      \cup [ok : {TRUE}, file_name : {"METADATA.pb"}, content : FileContents]

\* One walk of the repository: the entry met in each directory.
Walks == [Dirs -> WalkEntries]

\* d.path() of the entry of directory d, as path components.
EntryPath(d, file_name) == <<"repo", d, file_name>>

\* Path::parent
Parent(path) == SubSeq(path, 1, Len(path) - 1)

\* PathBuf::push of a relative file name
Push(path, file_name) == Append(path, file_name)

\* Option<Regex>: <<>> for None, <<re>> for Some(re); a regex is the set of
\* directories whose METADATA.pb path it matches.
FamilyFilters == { <<>>, <<{1}>> }

\* filter.map(|r| r.find(path).is_some()).unwrap_or(true)
FilterAccepts(filter, d) == IF filter = <<>> THEN TRUE ELSE d \in filter[1]

\* Result<FamilyProto, ParseError>
ParseError == [ok |-> FALSE, fonts |-> <<>>]
FamilyOk(fonts) == [ok |-> TRUE, fonts |-> fonts]

\* read_family as the index sees it: the record, or the parser's error.
read_family(content) ==
    IF content.valid THEN FamilyOk(content.fonts) ELSE ParseError

\* What a read met: the outcome of the read together with the failure that
\* decided it ("" when nothing failed).
Met(out, failure) == [out |-> out, met |-> failure]

\* The entries of a walk that reach the map closure of iter_families:
\* walk errors dropped, then the file name test, then the filter.
Discovered(walk, filter) ==
    { d \in Dirs : /\ walk[d].ok
                   /\ walk[d].file_name = "METADATA.pb"
                   /\ FilterAccepts(filter, d) }

RECURSIVE iter_families_from(_, _, _)
iter_families_from(walk, filter, d) ==
    IF d > NumDirs THEN <<>>
    ELSE IF d \in Discovered(walk, filter)
         THEN <<[path |-> EntryPath(d, walk[d].file_name),
                 result |-> read_family(walk[d].content)]>>
              \o iter_families_from(walk, filter, d + 1)
         ELSE iter_families_from(walk, filter, d + 1)

\* Mutant of iter_families: the scan stops at the first file that fails to
\* parse, its error entry being the last of the list.
iter_families_stop_on_error(walk, filter) ==
    LET all   == iter_families_from(walk, filter, 1)
        bad   == { k \in 1..Len(all) : ~all[k].result.ok }
        first == CHOOSE k \in bad : \A j \in bad : k <= j
    IN  IF \E d \in Discovered(walk, filter) : ~walk[d].content.readable
        THEN Met(Panic, "read failure")
        ELSE IF bad = {} THEN Met(Returned(all), "")
        ELSE Met(Returned(SubSeq(all, 1, first)), "")

\* iter_families(...).collect(): Panic when fs::read_to_string fails on a
\* discovered file (expect("To read files!")), else the vector.
iter_families(walk, filter) ==
    IF \E d \in Discovered(walk, filter) : ~walk[d].content.readable
    THEN Met(Panic, "read failure")
    ELSE Met(Returned(iter_families_from(walk, filter, 1)), "")

\* The closure of family_by_font_file: every (file name, index) pair of the
\* successfully parsed families, collected into a HashMap, a later pair
\* replacing an earlier one with the same key.  Indices are 1-based here.
RECURSIVE InsertFonts(_, _, _, _)
InsertFonts(map, fonts, i, k) ==
    IF k > Len(fonts) THEN map
    ELSE InsertFonts((fonts[k] :> i) @@ map, fonts, i, k + 1)

RECURSIVE collect_font_files(_, _, _)
collect_font_files(fams, map, i) ==
    IF i > Len(fams) THEN map
    ELSE IF fams[i].result.ok
         THEN collect_font_files(fams, InsertFonts(map, fams[i].result.fonts, i, 1), i + 1)
         ELSE collect_font_files(fams, map, i + 1)

EmptyMap == [n \in {} |-> 0]

\* Mutant of font_file_index: the index of the following family is stored.
font_file_index_shifted(fams) ==
    LET map == collect_font_files(fams, [n \in {} |-> 0], 1)
    IN  [n \in DOMAIN map |-> map[n] + 1]

\* Mutant of font_file_index: of the parsed families that list a file name
\* the earliest one is stored.
font_file_index_first_wins(fams) ==
    LET map == collect_font_files(fams, [n \in {} |-> 0], 1)
        lists(i, n) == /\ fams[i].result.ok
                       /\ \E k \in 1..Len(fams[i].result.fonts) :
                            fams[i].result.fonts[k] = n
    IN  [n \in DOMAIN map |->
           CHOOSE i \in 1..Len(fams) :
              lists(i, n) /\ \A j \in 1..Len(fams) : lists(j, n) => i <= j]

\* The HashMap the closure of family_by_font_file collects.
font_file_index(fams) == collect_font_files(fams, EmptyMap, 1)

\* Mutant of get_or_init: the closure runs and its result is stored on
\* every call.
get_or_init_always(cell, init) ==
    IF init = Panic THEN Panic ELSE Returned(<<init.value>>)

\* OnceCell::get_or_init(closure): init is the outcome the closure has when
\* it runs.  The outcome is the cell afterwards, or Panic (the cell is then
\* left unset).
get_or_init(cell, init) ==
    IF cell # Unset THEN Returned(cell)
    ELSE IF init = Panic THEN Panic
    ELSE Returned(<<init.value>>)

-----------------------------------------------------------------------------
(* GoogleFonts index: families, family_by_font_file, family,               *)
(* find_font_binary                                                        *)

\* A filesystem access and what it answered.
FsEvent(call, answer) == [call |-> call, answer |-> answer]

\* self.families() on the cell as it stands, the walk being what the disk
\* holds should the closure run.
families_call(cell, walk) ==
    get_or_init(cell, iter_families(walk, family_filter).out)

\* The filesystem accesses of self.families(): the walk, when the closure runs.
families_seen(cell, walk) ==
    IF cell = Unset
    THEN <<FsEvent("walkdir", iter_families(walk, family_filter).met)>>
    ELSE <<>>

\* self.family_by_font_file(): the two cells afterwards, or Panic.  The
\* closure, and with it self.families(), runs only while the index is unset.
family_by_font_file_call(walk) ==
    LET fams    == families_call(families, walk)
        closure == IF fams = Panic THEN Panic
                   ELSE Returned(font_file_index(fams.value[1]))
        index   == get_or_init(family_by_font_file, closure)
    IN  IF index = Panic THEN Panic
        ELSE Returned([families |-> IF family_by_font_file = Unset
                                    THEN fams.value ELSE families,
                       index    |-> index.value])

\* Which cells a panicking or returning family_by_font_file() leaves behind:
\* a panic of the walk leaves both as they were.
CellsAfter(outcome) ==
    IF outcome = Panic
    THEN [families |-> families, index |-> family_by_font_file]
    ELSE outcome.value

\* GoogleFonts::family: None is <<>>, Some((path, family)) is
\* <<[path, family]>>.  The indexing and the unwrap panic as in the code.
family_call(filename, walk) ==
    LET cells == family_by_font_file_call(walk)
    IN  IF cells = Panic THEN Panic
        ELSE
          LET map  == cells.value.index[1]
              fams == families_call(cells.value.families, walk)
          IN  IF filename \notin DOMAIN map THEN Returned(<<>>)
              ELSE IF fams = Panic THEN Panic
              ELSE IF map[filename] > Len(fams.value[1]) THEN Panic
              ELSE IF ~fams.value[1][map[filename]].result.ok THEN Panic
              ELSE Returned(<<[path   |-> fams.value[1][map[filename]].path,
                               family |-> fams.value[1][map[filename]].result]>>)

\* The filesystem accesses of family(): those of the walk, when it runs.
family_seen(walk) ==
    IF family_by_font_file = Unset THEN families_seen(families, walk) ELSE <<>>

\* What WalkDir yielded to self.families(): the walk, when the closure runs.
families_walked(cell, walk) == IF cell = Unset THEN <<walk>> ELSE <<>>

\* What WalkDir yielded to family(): the walk, when it runs.
family_walked(walk) ==
    IF family_by_font_file = Unset THEN families_walked(families, walk) ELSE <<>>

\* Mutant of font_file_path: the file name is pushed onto the path of
\* METADATA.pb itself.
font_file_path_no_parent(family_path, filename) == Push(family_path, filename)

\* The path find_font_binary probes for a font of a resolved family.
font_file_path(family_path, filename) == Push(Parent(family_path), filename)

\* GoogleFonts::find_font_binary; exists is what font_file.exists() answers
\* (the disk does not change between the two calls of one invocation).
find_font_binary_call(filename, walk, exists) ==
    LET fam == family_call(filename, walk)
    IN  IF fam = Panic THEN Panic
        ELSE IF fam.value = <<>> THEN Returned(<<>>)
        ELSE IF exists
             THEN Returned(<<font_file_path(fam.value[1].path, filename)>>)
             ELSE Returned(<<>>)

\* What the disk holds when an operation is called.  While the cell an
\* operation fills is unset, the closure runs and meets any repository;
\* once it is computed nothing is read, and the repository is fixed to an
\* empty one.
EmptyWalk == [d \in Dirs |-> WalkError]
WalksMet(cell) == IF cell = Unset THEN Walks ELSE {EmptyWalk}

\* The cell whose closure walks the repository in family(): the index, and
\* behind it the families.
WalkingCell == IF family_by_font_file = Unset THEN families ELSE family_by_font_file

Families ==
    /\ ~aborted
    /\ \E walk \in WalksMet(families) :
         LET out == families_call(families, walk)
         IN  /\ op' = <<"families", "">>
             /\ fs_seen' = families_seen(families, walk)
             /\ walked' = families_walked(families, walk)
             /\ diag' = <<>>
             /\ IF out = Panic
                THEN /\ aborted' = TRUE
                     /\ ret' = Panic
                     /\ families' = families
                ELSE /\ aborted' = FALSE
                     /\ ret' = Returned(out.value[1])
                     /\ families' = out.value
    /\ UNCHANGED <<family_filter, family_by_font_file, tags, tag_metadata>>

Family ==
    /\ ~aborted
    /\ \E filename \in IdxFileNames, walk \in WalksMet(WalkingCell) :
         LET cells == CellsAfter(family_by_font_file_call(walk))
             out   == family_call(filename, walk)
         IN  /\ op' = <<"family", filename>>
             /\ fs_seen' = family_seen(walk)
             /\ walked' = family_walked(walk)
             /\ diag' = <<>>
             /\ aborted' = (out = Panic)
             /\ ret' = out
             /\ families' = cells.families
             /\ family_by_font_file' = cells.index
    /\ UNCHANGED <<family_filter, tags, tag_metadata>>

FindFontBinary ==
    /\ ~aborted
    /\ \E filename \in IdxFileNames, walk \in WalksMet(WalkingCell) :
         LET cells    == CellsAfter(family_by_font_file_call(walk))
             fam      == family_call(filename, walk)
             resolved == fam # Panic /\ fam.value # <<>>
         IN  \E exists \in (IF resolved THEN BOOLEAN ELSE {FALSE}) :
               LET out   == find_font_binary_call(filename, walk, exists)
                   probe == IF resolved
                            THEN LET f == font_file_path(fam.value[1].path, filename)
                                 IN  <<FsEvent("exists", <<f, exists>>),
                                       FsEvent("exists", <<f, exists>>)>>
                            ELSE <<>>
               IN  /\ op' = <<"find_font_binary", filename>>
                   /\ fs_seen' = family_seen(walk) \o probe
                   /\ walked' = family_walked(walk)
                   /\ diag' = IF resolved /\ ~exists
                              THEN <<"No such file as">> ELSE <<>>
                   /\ aborted' = (out = Panic)
                   /\ ret' = out
                   /\ families' = cells.families
                   /\ family_by_font_file' = cells.index
    /\ UNCHANGED <<family_filter, tags, tag_metadata>>

-----------------------------------------------------------------------------
(* GoogleFonts index: read_tags, read_tag_metadata, tags, tag_metadata     *)

GoodTagLine      == <<"t", Comma, "t", Comma, "1">>
ShortTagLine     == <<"t", Comma, "t">>
UnterminatedLine == <<Quote>>
GoodMetaLine     == <<"t", Comma, "1", Comma, "1", Comma, "t">>

\* A line as BufReader::lines yields it: an I/O error, or the text.
LineError  == [io_ok |-> FALSE, text |-> <<>>]
Line(text) == [io_ok |-> TRUE, text |-> text]

TagFileLines ==
    { <<>>, <<Line(GoodTagLine)>>, <<Line(ShortTagLine)>>, <<Line(UnterminatedLine)>>,
      <<Line(GoodTagLine), Line(ShortTagLine)>>, <<LineError>> }

\* An entry of tags/all as fs::read_dir yields it.
DirEntry(kind, openable, lines) == [kind |-> kind, openable |-> openable, lines |-> lines]
TagDirEntries ==
    { DirEntry("entry_error", FALSE, <<>>), DirEntry("no_extension", FALSE, <<>>),
      DirEntry("not_csv", FALSE, <<>>), DirEntry("csv", FALSE, <<>>) }
      \cup { DirEntry("csv", TRUE, lines) : lines \in TagFileLines }

\* What fs::read_dir gives for tags/all: a failure, or the entries (none,
\* one or two of them).
TagDirUnreadable == [readable |-> FALSE, entries |-> <<>>]
TagListings ==
    {TagDirUnreadable}
      \cup { [readable |-> TRUE, entries |-> es] :
               es \in {<<>>} \cup { <<e>> : e \in TagDirEntries }
                         \cup { <<e, f>> : e, f \in TagDirEntries } }

\* tags/tags_metadata.csv as File::open and BufReader::lines give it.
MetaFile(openable, lines) == [openable |-> openable, lines |-> lines]
TagMetaFiles ==
    { MetaFile(FALSE, <<>>), MetaFile(TRUE, <<>>), MetaFile(TRUE, <<Line(GoodMetaLine)>>),
      MetaFile(TRUE, <<Line(ShortTagLine)>>), MetaFile(TRUE, <<LineError>>) }

\* Result<Vec<_>, Error>
ResultOk(v)    == [ok |-> TRUE, value |-> v, err |-> ""]
ResultErr(msg) == [ok |-> FALSE, value |-> <<>>, err |-> msg]

\* rdr.lines().map(expect).map(|s| from_str(&s).expect(..)) extending acc;
\* from_str is Tagging_from_str or TagMetadata_from_str, given as parsed.
RECURSIVE extend_lines(_, _, _, _)
extend_lines(lines, parsed, acc, k) ==
    IF k > Len(lines) THEN Met(Returned(acc), "")
    ELSE IF ~lines[k].io_ok THEN Met(Panic, "line read failure")
    ELSE IF parsed[k] = Panic THEN Met(Panic, "unterminated quote")
    ELSE IF ~parsed[k].value.ok THEN Met(Panic, "malformed row")
    ELSE extend_lines(lines, parsed, Append(acc, parsed[k].value), k + 1)

ParsedTags(lines) == [k \in 1..Len(lines) |-> Tagging_from_str(lines[k].text)]
ParsedMeta(lines) == [k \in 1..Len(lines) |-> TagMetadata_from_str(lines[k].text)]

RECURSIVE read_tags_from(_, _, _)
read_tags_from(entries, acc, i) ==
    IF i > Len(entries) THEN Met(Returned(ResultOk(acc)), "")
    ELSE IF entries[i].kind = "entry_error" THEN Met(Panic, "dir entry failure")
    ELSE IF entries[i].kind = "no_extension" THEN Met(Panic, "no extension")
    ELSE IF entries[i].kind # "csv" THEN read_tags_from(entries, acc, i + 1)
    ELSE IF ~entries[i].openable THEN Met(Returned(ResultErr("open")), "open failure")
    ELSE LET more == extend_lines(entries[i].lines, ParsedTags(entries[i].lines), acc, 1)
         IN  IF more.out = Panic THEN more
             ELSE read_tags_from(entries, more.out.value, i + 1)

\* read_tags on what tags/all holds.
read_tags(listing) ==
    IF ~listing.readable THEN Met(Panic, "read_dir failure")
    ELSE read_tags_from(listing.entries, <<>>, 1)

\* read_tag_metadata on what tags/tags_metadata.csv holds.
read_tag_metadata(file) ==
    IF ~file.openable THEN Met(Returned(ResultErr("open")), "open failure")
    ELSE LET more == extend_lines(file.lines, ParsedMeta(file.lines), <<>>, 1)
         IN  IF more.out = Panic THEN more
             ELSE Met(Returned(ResultOk(more.out.value)), "")

\* What tags/ holds when tags() or tag_metadata() is called: anything while
\* the cell is unset, fixed to empty once it is computed and nothing is read.
EmptyListing == [readable |-> TRUE, entries |-> <<>>]
MetaFilesMet(cell) == IF cell = Unset THEN TagMetaFiles ELSE {MetaFile(TRUE, <<>>)}

\* read_tags applied to every listing that can be met.
TagReads == { read_tags(listing) : listing \in TagListings }
TagReadsMet(cell) == IF cell = Unset THEN TagReads ELSE {read_tags(EmptyListing)}

Tags ==
    /\ ~aborted
    /\ \E read \in TagReadsMet(tags) :
         LET out  == get_or_init(tags, read.out)
         IN  /\ op' = <<"tags", "">>
             /\ fs_seen' = IF tags = Unset
                           THEN <<FsEvent("read_tags", read.met)>> ELSE <<>>
             /\ walked' = <<>>
             /\ diag' = <<>>
             /\ IF out = Panic
                THEN /\ aborted' = TRUE
                     /\ ret' = Panic
                     /\ tags' = tags
                ELSE /\ aborted' = FALSE
                     /\ ret' = Returned(out.value[1])
                     /\ tags' = out.value
    /\ UNCHANGED <<family_filter, families, family_by_font_file, tag_metadata>>

TagMetadata ==
    /\ ~aborted
    /\ \E file \in MetaFilesMet(tag_metadata) :
         LET read == read_tag_metadata(file)
             out  == get_or_init(tag_metadata, read.out)
         IN  /\ op' = <<"tag_metadata", "">>
             /\ fs_seen' = IF tag_metadata = Unset
                           THEN <<FsEvent("read_tag_metadata", read.met)>> ELSE <<>>
             /\ walked' = <<>>
             /\ diag' = <<>>
             /\ IF out = Panic
                THEN /\ aborted' = TRUE
                     /\ ret' = Panic
                     /\ tag_metadata' = tag_metadata
                ELSE /\ aborted' = FALSE
                     /\ ret' = Returned(out.value[1])
                     /\ tag_metadata' = out.value
    /\ UNCHANGED <<family_filter, families, family_by_font_file, tags>>

-----------------------------------------------------------------------------
(* GoogleFonts index: language, primary_language                           *)

\* The knowledge base bundled with the index.
BundledLanguages ==
    << [id |-> "en_Latn", script |-> "Latn", population |-> 20],
       [id |-> "ja_Jpan", script |-> "Jpan", population |-> 10] >>

\* The ids callers look up, and the families they ask the primary language
\* of: a known and an unknown id; a family that declares nothing, and one
\* that declares an unknown language and a known script.
IdxLangIds == {"en_Latn", "Invalid"}
IdxLangFamilies ==
    { [primary_language |-> None, primary_script |-> None],
      [primary_language |-> "Invalid", primary_script |-> "Jpan"] }

LangBundled ==
    /\ LANGUAGES = BundledLanguages
    /\ lang_family = [primary_language |-> None, primary_script |-> None]
    /\ lang_ret = NotCalled

\* The lines primary_language writes to stderr: one when the declared
\* language is unknown, one when the declared script matches no language.
primary_language_diag(family) ==
    LET p1 == IF family.primary_language # None
              THEN language(family.primary_language) ELSE 0
    IN  (IF family.primary_language # None /\ p1 = 0
         THEN <<"specifies invalid primary_language">> ELSE <<>>)
        \o
        (IF p1 = 0 /\ family.primary_script # None
                   /\ MostPopulous(family.primary_script) = 0
         THEN <<"specifies a primary_script that matches no languages">> ELSE <<>>)

\* Mutant of Language: the call also fills the tags cache.
Language_filling_tags ==
    /\ ~aborted
    /\ \E lang_id \in IdxLangIds :
         /\ op' = <<"language", lang_id>>
         /\ ret' = Returned(IF language(lang_id) = 0 THEN <<>> ELSE <<language(lang_id)>>)
    /\ fs_seen' = <<>>
    /\ walked' = <<>>
    /\ diag' = <<>>
    /\ aborted' = FALSE
    /\ tags' = <<ResultOk(<<>>)>>
    /\ UNCHANGED <<family_filter, families, family_by_font_file, tag_metadata>>

\* GoogleFonts::language on the index: None is <<>>, Some(&LANGUAGES[i]) is <<i>>.
Language ==
    /\ ~aborted
    /\ \E lang_id \in IdxLangIds :
         /\ op' = <<"language", lang_id>>
         /\ ret' = Returned(IF language(lang_id) = 0 THEN <<>> ELSE <<language(lang_id)>>)
    /\ fs_seen' = <<>>
    /\ walked' = <<>>
    /\ diag' = <<>>
    /\ aborted' = FALSE
    /\ UNCHANGED <<family_filter, families, family_by_font_file, tags, tag_metadata>>

\* GoogleFonts::primary_language on the index, for a family of the caller.
PrimaryLanguageOfIndex ==
    /\ ~aborted
    /\ \E family \in IdxLangFamilies :
         LET out == primary_language(family)
         IN  /\ op' = <<"primary_language", "">>
             /\ ret' = IF out = Panic THEN Panic ELSE Returned(<<out.value>>)
             /\ diag' = primary_language_diag(family)
             /\ aborted' = (out = Panic)
    /\ fs_seen' = <<>>
    /\ walked' = <<>>
    /\ UNCHANGED <<family_filter, families, family_by_font_file, tags, tag_metadata>>

-----------------------------------------------------------------------------
(* The index: GoogleFonts::new, then any sequence of accessor calls        *)

\* GoogleFonts::new: no I/O, the four cells unset.
IdxInit ==
    /\ family_filter \in FamilyFilters
    /\ families = Unset
    /\ family_by_font_file = Unset
    /\ tags = Unset
    /\ tag_metadata = Unset
    /\ op = <<"new", "">>
    /\ ret = NotCalled
    /\ fs_seen = <<>>
    /\ walked = <<>>
    /\ diag = <<>>
    /\ aborted = FALSE

Init == SelIdle /\ LangBundled /\ CsvIdle /\ PbIdle /\ IdxInit

Next ==
    \/ Families /\ UNCHANGED <<selVars, langVars, csvVars, pbVars>>
    \/ Family /\ UNCHANGED <<selVars, langVars, csvVars, pbVars>>
    \/ FindFontBinary /\ UNCHANGED <<selVars, langVars, csvVars, pbVars>>
    \/ Tags /\ UNCHANGED <<selVars, langVars, csvVars, pbVars>>
    \/ TagMetadata /\ UNCHANGED <<selVars, langVars, csvVars, pbVars>>
    \/ Language /\ UNCHANGED <<selVars, langVars, csvVars, pbVars>>
    \/ PrimaryLanguageOfIndex /\ UNCHANGED <<selVars, langVars, csvVars, pbVars>>

Spec == Init /\ [][Next]_vars

-----------------------------------------------------------------------------
(* Specifications of the pure components                                   *)

IdxIdle ==
    /\ family_filter = <<>>
    /\ families = Unset
    /\ family_by_font_file = Unset
    /\ tags = Unset
    /\ tag_metadata = Unset
    /\ op = <<"new", "">>
    /\ ret = NotCalled
    /\ fs_seen = <<>>
    /\ walked = <<>>
    /\ diag = <<>>
    /\ aborted = FALSE

SelectorInit == SelInit /\ LangIdle /\ CsvIdle /\ PbIdle /\ IdxIdle
SelectorNext ==
    \/ SelectFont /\ UNCHANGED <<langVars, csvVars, pbVars, idxVars>>
    \/ Exemplar /\ UNCHANGED <<langVars, csvVars, pbVars, idxVars>>
SelectorSpec == SelectorInit /\ [][SelectorNext]_vars

LanguageInit == SelIdle /\ LangInit /\ CsvIdle /\ PbIdle /\ IdxIdle
LanguageNext == PrimaryLanguage /\ UNCHANGED <<selVars, csvVars, pbVars, idxVars>>
LanguageSpec == LanguageInit /\ [][LanguageNext]_vars

TokenizerInit == SelIdle /\ LangIdle /\ CsvInit /\ PbIdle /\ IdxIdle
TokenizerNext ==
    \/ CsvValues /\ UNCHANGED <<selVars, langVars, pbVars, idxVars>>
    \/ TaggingFromStr /\ UNCHANGED <<selVars, langVars, pbVars, idxVars>>
TokenizerSpec == TokenizerInit /\ [][TokenizerNext]_vars

ReaderInit == SelIdle /\ LangIdle /\ CsvIdle /\ PbInit /\ IdxIdle
ReaderNext == ReadFamily /\ UNCHANGED <<selVars, langVars, csvVars, idxVars>>
ReaderSpec == ReaderInit /\ [][ReaderNext]_vars

-----------------------------------------------------------------------------
(* Claims about the font selector (SelectorSpec)                           *)

\* The score as the claim words it.
ClaimScore(font, ps, pw) ==
    (IF font.style = (IF ps = "Normal" THEN "normal" ELSE "italic") THEN 16 ELSE 0)
    - (Abs(font.weight - pw) \div 100)
    + (IF font.weight > pw THEN 1 ELSE 0)
    + (IF \E i \in 1..(Len(font.filename) - 1) :
             font.filename[i] = "]" /\ font.filename[i + 1] = "."
       THEN 2 ELSE 0)

\* C1: select_font returns None exactly when the family has no fonts, and
\* otherwise the earliest font of the list among those whose score is
\* maximal over the whole list.
C1_SelectFontEarliestBest ==
    sel_call[1] = "select_font" =>
        LET ps == sel_call[2]
            pw == sel_call[3]
            n  == Len(sel_family)
            sc(i) == ClaimScore(sel_family[i], ps, pw)
        IN  /\ (sel_ret = 0) <=> (n = 0)
            /\ n > 0 =>
                 /\ sel_ret \in 1..n
                 /\ \A j \in 1..n : sc(j) <= sc(sel_ret)
                 /\ \A j \in 1..(sel_ret - 1) : sc(j) < sc(sel_ret)

\* Witness of C1: select_font has picked the second of three fonts, the third
\* scoring the same and the first scoring less.
C1_Witness ==
    /\ sel_call[1] = "select_font"
    /\ Len(sel_family) = 3
    /\ sel_ret = 2
    /\ ClaimScore(sel_family[3], sel_call[2], sel_call[3])
         = ClaimScore(sel_family[2], sel_call[2], sel_call[3])
    /\ ClaimScore(sel_family[1], sel_call[2], sel_call[3])
         < ClaimScore(sel_family[2], sel_call[2], sel_call[3])

\* The fonts of the family all have one style, and their file names all
\* contain "]." or none does.
UniformFamily ==
    \A i, j \in 1..Len(sel_family) :
        /\ sel_family[i].style = sel_family[j].style
        /\ Contains(sel_family[i].filename, <<"]", ".">>)
             <=> Contains(sel_family[j].filename, <<"]", ".">>)

\* C13: for a family whose fonts all have the same style and the same
\* variable-file-name status, the font exemplar returns has a distance
\* |weight - 400| that is minimal among the fonts of the family.
C13_ExemplarClosestTo400 ==
    (sel_call[1] = "exemplar" /\ sel_family # <<>> /\ UniformFamily) =>
        /\ sel_ret # 0
        /\ \A j \in 1..Len(sel_family) :
             Abs(sel_family[sel_ret].weight - 400) <= Abs(sel_family[j].weight - 400)

-----------------------------------------------------------------------------
(* Claims about the primary-language resolver (LanguageSpec)               *)

HasLanguage(id) == \E i \in 1..Len(LANGUAGES) : LANGUAGES[i].id = id

DeclaresValidLanguage(family) ==
    family.primary_language # None /\ HasLanguage(family.primary_language)

ScriptMatches(family) ==
    { i \in 1..Len(LANGUAGES) :
        family.primary_script # None /\ LANGUAGES[i].script = family.primary_script }

\* C2: with en_Latn in the knowledge base primary_language does not abort
\* and returns the declared primary language when its id is known, else a
\* language with the declared primary script when there is one, else en_Latn.
C2_FallbackChain ==
    (lang_ret # NotCalled /\ HasLanguage("en_Latn")) =>
        /\ HasReturned(lang_ret)
        /\ lang_ret.value \in 1..Len(LANGUAGES)
        /\ IF DeclaresValidLanguage(lang_family)
           THEN LANGUAGES[lang_ret.value].id = lang_family.primary_language
           ELSE IF ScriptMatches(lang_family) # {}
                THEN lang_ret.value \in ScriptMatches(lang_family)
                ELSE LANGUAGES[lang_ret.value].id = "en_Latn"

\* Witness of C2: a family declaring a known primary language together with
\* a primary script that some other language has got its declared language.
C2_Witness ==
    /\ HasReturned(lang_ret)
    /\ HasLanguage("en_Latn")
    /\ DeclaresValidLanguage(lang_family)
    /\ ScriptMatches(lang_family) # {}
    /\ lang_ret.value \notin ScriptMatches(lang_family)
    /\ LANGUAGES[lang_ret.value].id = lang_family.primary_language

\* C3: with a primary script and no valid primary language, the language
\* returned has that script and the greatest population of all languages
\* with that script, and is the latest such language in iteration order.
C3_MostPopulousLatest ==
    ( /\ lang_ret # NotCalled
      /\ ~DeclaresValidLanguage(lang_family)
      /\ ScriptMatches(lang_family) # {} ) =>
        /\ HasReturned(lang_ret)
        /\ lang_ret.value \in ScriptMatches(lang_family)
        /\ \A j \in ScriptMatches(lang_family) :
             /\ LANGUAGES[j].population <= LANGUAGES[lang_ret.value].population
             /\ j > lang_ret.value =>
                  LANGUAGES[j].population < LANGUAGES[lang_ret.value].population

\* Witness of C3: two languages of the declared script share the greatest
\* population and the later one was returned.
C3_Witness ==
    /\ HasReturned(lang_ret)
    /\ ~DeclaresValidLanguage(lang_family)
    /\ lang_ret.value \in ScriptMatches(lang_family)
    /\ \E j \in ScriptMatches(lang_family) :
         j < lang_ret.value
         /\ LANGUAGES[j].population = LANGUAGES[lang_ret.value].population
    /\ \E j \in ScriptMatches(lang_family) :
         LANGUAGES[j].population < LANGUAGES[lang_ret.value].population

-----------------------------------------------------------------------------
(* Claims about the tokenizer and the tag parser (TokenizerSpec)           *)

\* The line starts, after trimming, with a quoted section that is closed.
StartsQuoted(line) ==
    LET s == Trim(line)
    IN  Len(s) > 0 /\ s[1] = Quote /\ Find(SliceFrom(s, 1), Quote) # -1

\* The 0-based index, in the trimmed line, of the quote closing the first field.
ClosingQuote(line) == Find(SliceFrom(Trim(line), 1), Quote) + 1

\* The text between the quotes of the first field.
QuotedText(line) == SubSeq(Trim(line), 2, ClosingQuote(line))

\* What follows the closing quote of the first field.
AfterQuoted(line) == TrimStart(SliceFrom(Trim(line), ClosingQuote(line) + 1))

\* C4: a field read from a double-quoted section is returned as exactly the
\* text between the enclosing quotes, the two quotes removed.  Stated of the
\* first field of a line, the quoted section being the whole field.
C4_QuotesStripped ==
    ( /\ HasReturned(csv_ret)
      /\ StartsQuoted(csv_line)
      /\ (AfterQuoted(csv_line) = <<>> \/ Head(AfterQuoted(csv_line)) = Comma) ) =>
        /\ Len(csv_ret.value) >= 1
        /\ csv_ret.value[1] = QuotedText(csv_line)

\* C5: a field that starts with a quote and has a closing quote is never
\* ended at a comma between the two quotes: it extends at least to the
\* closing quote.
C5_NoCutInsideQuotes ==
    (HasReturned(csv_ret) /\ StartsQuoted(csv_line)) =>
        /\ Len(csv_ret.value) >= 1
        /\ Len(csv_ret.value[1]) >= ClosingQuote(csv_line) + 1

BothParsed == HasReturned(csv_ret) /\ tag_ret # NotCalled

\* C6 as stated: three fields yield (family, empty location, tag, value),
\* four fields yield (family, location, tag, value), any other number of
\* fields yields a format error value.
C6_FieldCountDecides ==
    BothParsed =>
        LET v == csv_ret.value
            t == tag_ret.value
        IN  /\ HasReturned(tag_ret)
            /\ Len(v) = 3 =>
                 /\ t.ok
                 /\ t.family = v[1] /\ t.loc = <<>> /\ t.tag = v[2]
            /\ Len(v) = 4 =>
                 /\ t.ok
                 /\ t.family = v[1] /\ t.loc = v[2] /\ t.tag = v[3]
            /\ Len(v) \notin {3, 4} => ~t.ok

\* C6 amended: with three or four fields the entry is yielded when the last
\* field parses as a floating-point number, and a format error value
\* otherwise; any other number of fields yields a format error value.
C6_FieldCountAndValueDecide ==
    BothParsed =>
        LET v == csv_ret.value
            n == Len(v)
        IN  /\ HasReturned(tag_ret)
            /\ (n = 3 /\ IsF32(v[3])) =>
                 tag_ret.value = [ok |-> TRUE, family |-> v[1], loc |-> <<>>,
                                  tag |-> v[2], value |-> F32Value(v[3])]
            /\ (n = 4 /\ IsF32(v[4])) =>
                 tag_ret.value = [ok |-> TRUE, family |-> v[1], loc |-> v[2],
                                  tag |-> v[3], value |-> F32Value(v[4])]
            /\ (n \in {3, 4} /\ ~IsF32(v[n])) =>
                 tag_ret.value = Err("Invalid tag value")
            /\ n \notin {3, 4} => tag_ret.value = Err("Unparseable tag")

\* Witness of C6: a three-field line whose fields are all non-empty was
\* parsed into an entry with an empty location.
C6_Witness ==
    /\ BothParsed
    /\ Len(csv_ret.value) = 3
    /\ \A i \in 1..3 : csv_ret.value[i] # <<>>
    /\ HasReturned(tag_ret)
    /\ tag_ret.value.ok
    /\ tag_ret.value.loc = <<>>
    /\ tag_ret.value.tag = csv_ret.value[2]

\* The 1-based indices of the commas of a line.
Commas(line) == { k \in 1..Len(line) : line[k] = Comma }

\* The index of the i-th comma of a line; 0 stands for the comma before the
\* line and the number of commas + 1 for the one after it.
NthComma(line, i) ==
    IF i = 0 THEN 0
    ELSE IF i > Cardinality(Commas(line)) THEN Len(line) + 1
    ELSE CHOOSE k \in Commas(line) :
            Cardinality({ j \in Commas(line) : j <= k }) = i

\* The text between the (i-1)-th and the i-th comma, whitespace trimmed.
FieldBetween(line, i) ==
    Trim(SubSeq(line, NthComma(line, i - 1) + 1, NthComma(line, i) - 1))

\* C16: on a non-empty line without a double quote csv_values returns
\* (number of commas + 1) fields, the i-th being the trimmed text between
\* the (i-1)-th and the i-th comma; an empty last field after a trailing
\* comma is among them.
C16_OneFieldPerSeparator ==
    (csv_ret # NotCalled /\ csv_line # <<>> /\ ~Contains(csv_line, <<Quote>>)) =>
        /\ HasReturned(csv_ret)
        /\ Len(csv_ret.value) = Cardinality(Commas(csv_line)) + 1
        /\ \A i \in 1..Len(csv_ret.value) :
             csv_ret.value[i] = FieldBetween(csv_line, i)

-----------------------------------------------------------------------------
(* Claims about the index (Spec)                                           *)

\* The call just made was answered from an already computed cell.
CachedCall(name, cell) == op'[1] = name /\ cell # Unset

\* The call just made computed the cell and returned.
FirstCall(name, cell) == op'[1] = name /\ cell = Unset /\ ~aborted'

\* C7: each of the four caches goes from unset to computed at most once and
\* never changes afterwards, and a call of families(), tags() or
\* tag_metadata() after the first returns what the first returned, with no
\* filesystem access.
C7_CachesWriteOnce ==
    [][ /\ families # Unset => families' = families
        /\ family_by_font_file # Unset => family_by_font_file' = family_by_font_file
        /\ tags # Unset => tags' = tags
        /\ tag_metadata # Unset => tag_metadata' = tag_metadata
        /\ FirstCall("families", families) => ret' = Returned(families'[1])
        /\ FirstCall("tags", tags) => ret' = Returned(tags'[1])
        /\ FirstCall("tag_metadata", tag_metadata) => ret' = Returned(tag_metadata'[1])
        /\ CachedCall("families", families) =>
             ret' = Returned(families[1]) /\ fs_seen' = <<>>
        /\ CachedCall("tags", tags) =>
             ret' = Returned(tags[1]) /\ fs_seen' = <<>>
        /\ CachedCall("tag_metadata", tag_metadata) =>
             ret' = Returned(tag_metadata[1]) /\ fs_seen' = <<>>
      ]_vars

\* Witness of C7: with all four caches computed, a call of families() read
\* nothing and returned a list with a family and a parse failure in it.
C7_Witness ==
    /\ op[1] = "families"
    /\ fs_seen = <<>>
    /\ families # Unset /\ family_by_font_file # Unset
    /\ tags # Unset /\ tag_metadata # Unset
    /\ ret = Returned(families[1])
    /\ \E i, j \in 1..Len(families[1]) :
         families[1][i].result.ok /\ ~families[1][j].result.ok

\* The read of the last call met a failure.
MetFailure(call) ==
    /\ fs_seen # <<>>
    /\ fs_seen[1].call = call
    /\ fs_seen[1].answer # ""

\* C8: a read failure or a malformed row met by the first call of tags() or
\* tag_metadata() is stored in the cache and returned.
C8_FailureIsCached ==
    /\ (op[1] = "tags" /\ MetFailure("read_tags")) =>
         /\ ~aborted
         /\ tags # Unset
         /\ ~tags[1].ok
         /\ ret = Returned(tags[1])
    /\ (op[1] = "tag_metadata" /\ MetFailure("read_tag_metadata")) =>
         /\ ~aborted
         /\ tag_metadata # Unset
         /\ ~tag_metadata[1].ok
         /\ ret = Returned(tag_metadata[1])

Range(seq) == { seq[k] : k \in 1..Len(seq) }

\* The entries of the families cache that parsed and list the file name.
Owners(filename) ==
    { i \in 1..Len(families[1]) :
        families[1][i].result.ok /\ filename \in Range(families[1][i].result.fonts) }

\* family(font) has returned: Some exactly when a parsed family lists the
\* file name, and then the (path, family) of such an entry of families().
ResolvesToOwner ==
    /\ ~aborted
    /\ HasReturned(ret)
    /\ families # Unset
    /\ (ret.value # <<>>) <=> (Owners(op[2]) # {})
    /\ ret.value # <<>> =>
         \E i \in Owners(op[2]) :
            ret.value[1] = [path |-> families[1][i].path,
                            family |-> families[1][i].result]

C14_LastFamilyWins ==
    (op[1] = "family" /\ ~aborted /\ Cardinality(Owners(op[2])) >= 2) =>
        /\ HasReturned(ret)
        /\ ret.value # <<>>
        /\ \E i \in Owners(op[2]) :
             /\ \A j \in Owners(op[2]) : j <= i
             /\ ret.value[1] = [path   |-> families[1][i].path,
                                family |-> families[1][i].result]
        /\ diag = <<>>

\* Witness of C14: two parsed families list the file name, and family(font)
\* returned the second one, which differs from the first.
C14_Witness ==
    /\ op[1] = "family"
    /\ ~aborted
    /\ families # Unset
    /\ Owners(op[2]) = {1, 2}
    /\ families[1][1].result # families[1][2].result
    /\ ret = Returned(<<[path   |-> families[1][2].path,
                         family |-> families[1][2].result]>>)
    /\ diag = <<>>

\* The answers of font_file.exists() during the last call.
Probes == { k \in 1..Len(fs_seen) : fs_seen[k].call = "exists" }

\* The directory of a METADATA.pb path joined with a file name.
Sibling(metadata_path, filename) == <<metadata_path[1], metadata_path[2], filename>>

\* C10: find_font_binary returns Some(path) only when path is the directory
\* of an owning family's METADATA.pb joined with the file name and exists on
\* disk; it returns None when the font resolves to no family or the file is
\* absent; and it adds no abort to those of the resolution.
C10_FontBinary ==
    op[1] = "find_font_binary" =>
        /\ aborted => MetFailure("walkdir")
        /\ ~aborted =>
             /\ HasReturned(ret)
             /\ families # Unset
             /\ ret.value # <<>> =>
                  \E i \in Owners(op[2]) :
                     /\ ret.value[1] = Sibling(families[1][i].path, op[2])
                     /\ Probes # {}
                     /\ \A k \in Probes : fs_seen[k].answer = <<ret.value[1], TRUE>>
             /\ Owners(op[2]) = {} => (ret.value = <<>> /\ Probes = {})
             /\ (\E k \in Probes : ~fs_seen[k].answer[2]) => ret.value = <<>>
             /\ Owners(op[2]) # {} => Probes # {}

\* Witness of C10: the font resolved to a family and its file was absent.
C10_Witness ==
    /\ op[1] = "find_font_binary"
    /\ ~aborted
    /\ families # Unset
    /\ Owners(op[2]) # {}
    /\ \E k \in Probes : ~fs_seen[k].answer[2]
    /\ ret = Returned(<<>>)
    /\ diag # <<>>

\* The directories of a walk that hold a file named METADATA.pb whose path
\* the filter of the index accepts.
Matching(walk) ==
    { d \in DOMAIN walk :
        /\ walk[d].ok
        /\ walk[d].file_name = "METADATA.pb"
        /\ (family_filter # <<>> => d \in family_filter[1]) }

\* The position of directory d among the matching ones, in walk order.
Rank(walk, d) == Cardinality({ e \in Matching(walk) : e <= d })

\* The entry the claim gives the file of directory d: its path, with the
\* record when the text parses and the parser's error when it does not.
EntryOf(walk, d) ==
    [path   |-> <<"repo", d, "METADATA.pb">>,
     result |-> IF walk[d].content.valid
                THEN [ok |-> TRUE, fonts |-> walk[d].content.fonts]
                ELSE [ok |-> FALSE, fonts |-> <<>>]]

\* list holds exactly one entry per matching file of the walk, in walk
\* order, each entry depending on its own file only.
OneEntryPerFile(list, walk) ==
    /\ Len(list) = Cardinality(Matching(walk))
    /\ \A d \in Matching(walk) : list[Rank(walk, d)] = EntryOf(walk, d)

\* The scan of the last call met a matching file it could not read.
ScanReadFailure == \E d \in Matching(walked[1]) : ~walked[1][d].content.readable

\* C11: a call of families() that scans the repository and returns, returns
\* exactly one (path, parse-result) entry per matching METADATA.pb, in walk
\* order, and caches that list; a parse failure is the error entry of its
\* own file: it changes no other entry and does not end the scan, the only
\* thing that ends it being a matching file that cannot be read.
C11_OneEntryPerFile ==
    (op[1] = "families" /\ walked # <<>>) =>
        /\ aborted => ScanReadFailure
        /\ ~aborted =>
             /\ HasReturned(ret)
             /\ OneEntryPerFile(ret.value, walked[1])
             /\ families = <<ret.value>>

\* Witness of C11: families() scanned a repository whose first METADATA.pb
\* fails to parse and whose second one parses, and returned both entries.
C11_Witness ==
    /\ op[1] = "families"
    /\ walked # <<>>
    /\ HasReturned(ret)
    /\ Cardinality(Matching(walked[1])) = 2
    /\ Len(ret.value) = 2
    /\ ~ret.value[1].result.ok
    /\ ret.value[2].result.ok

\* The four caches of the index.
caches == <<families, family_by_font_file, tags, tag_metadata>>

\* C15: new() reads nothing and leaves the four caches unset; families()
\* sets only the families cache, tags() only the tags cache, tag_metadata()
\* only the tag-metadata cache; family() and find_font_binary() set only the
\* families cache and the reverse index; language() and primary_language()
\* set no cache.
C15_OwnCachesOnly ==
    /\ [](op[1] = "new" =>
            /\ caches = <<Unset, Unset, Unset, Unset>>
            /\ fs_seen = <<>> /\ walked = <<>>)
    /\ [][ /\ op'[1] # "new"
           /\ op'[1] = "families" =>
                UNCHANGED <<family_by_font_file, tags, tag_metadata>>
           /\ op'[1] = "tags" =>
                UNCHANGED <<families, family_by_font_file, tag_metadata>>
           /\ op'[1] = "tag_metadata" =>
                UNCHANGED <<families, family_by_font_file, tags>>
           /\ op'[1] \in {"family", "find_font_binary"} =>
                UNCHANGED <<tags, tag_metadata>>
           /\ op'[1] \in {"language", "primary_language"} =>
                UNCHANGED caches /\ fs_seen' = <<>>
         ]_vars

\* Witness of C15: with the tags cache computed and the two tag-independent
\* caches unset, family(font) resolved a font, setting the families cache
\* and the reverse index and leaving the tag-metadata cache unset.
C15_Witness ==
    /\ op[1] = "family"
    /\ ~aborted
    /\ ret.value # <<>>
    /\ families # Unset /\ family_by_font_file # Unset
    /\ tags # Unset /\ tag_metadata = Unset

-----------------------------------------------------------------------------
(* Claims about the record reader (ReaderSpec)                             *)

\* The text with its position blocks removed, a block being the field name
\* position, whitespace, and a brace pair, met outside a string literal;
\* what stands between two double quotes is the content of a string field
\* and is copied.
RECURSIVE WithoutPositionBlocks(_, _, _)
WithoutPositionBlocks(s, i, in_string) ==
    IF i > Len(s) THEN <<>>
    ELSE IF s[i] = Quote
         THEN <<Quote>> \o WithoutPositionBlocks(s, i + 1, ~in_string)
    ELSE IF ~in_string /\ MatchEnd(s, i) # 0
         THEN WithoutPositionBlocks(s, MatchEnd(s, i) + 1, FALSE)
    ELSE <<s[i]>> \o WithoutPositionBlocks(s, i + 1, in_string)

\* Every string literal of the text is closed.
StringsClosed(s) == Cardinality({ i \in 1..Len(s) : s[i] = Quote }) % 2 = 0

\* C12: the text read_family hands to the parser is the input with every
\* position block removed and every other character unchanged and in
\* order; the content of string fields is not altered.  Stated for the
\* texts whose string literals are closed.
C12_OnlyBlocksRemoved ==
    (HasReturned(pb_parsed) /\ StringsClosed(pb_text)) =>
        pb_parsed.value = WithoutPositionBlocks(pb_text, 1, FALSE)

=============================================================================
